---- MODULE Spec2Model ----
(***************************************************************************)
(* Event Management canister (src/src/index.ts): a StableBTreeMap from     *)
(* event id to Event record, with four queries (getAllEvents,              *)
(* getEventById, getOwnersEvents, getEventsByStatus) and four updates      *)
(* (createEvent, updateEvent, endEvent, deleteEvent).                      *)
(*                                                                         *)
(* Strings that the code inspects character by character (identifiers,     *)
(* tested by the regular expression of isValidUUID) are sequences of       *)
(* one-character strings.  Strings that the code only tests for emptiness  *)
(* and equality (the payload fields) are TLA+ strings.                     *)
(***************************************************************************)
EXTENDS Integers, Sequences, FiniteSets, TLC

VARIABLES
    eventStorage,   \* the StableBTreeMap: a function from stored keys to Events
    now,            \* the reading ic.time() gives to the call being executed
    minted,         \* the identifiers uuidv4() has returned so far
    op,             \* the name of the last canister method called
    result          \* the Result that call returned

vars == <<eventStorage, now, minted, op, result>>

-----------------------------------------------------------------------------
(* Program constant and bounds *)

fixedEndDate == 86400000

\* number of identifiers uuidv4() can return in a run (two per event)
MaxUuids == 4
\* number of times the clock advances in a run
MaxTicks == 3

-----------------------------------------------------------------------------
(* Identifiers *)

HexLower == <<"0", "1", "2", "3", "4", "5", "6", "7", "8", "9",
              "a", "b", "c", "d", "e", "f">>
HexDigits == {HexLower[i] : i \in 1..16} \cup {"A", "B", "C", "D", "E", "F"}
DashPositions == {9, 14, 19, 24}

\* the text spelled by a sequence of characters
RECURSIVE Text(_)
Text(chars) == IF chars = <<>> THEN "" ELSE Head(chars) \o Text(Tail(chars))

\* A version-4 identifier as uuidv4() prints it: lower-case hexadecimal,
\* version nibble 4, variant nibble 8..b.  c is the digit filling the rest.
UuidChars(c) ==
    [i \in 1..36 |->
        IF i \in DashPositions THEN "-"
        ELSE IF i = 15 THEN "4"
        ELSE IF i = 20 THEN "8"
        ELSE c]

\* the identifiers the generator can return within the bound
UuidSpellings == {UuidChars(HexLower[i]) : i \in 1..MaxUuids}
UUIDs == {Text(chars) : chars \in UuidSpellings}

\* texts that are no product of uuidv4(): "not-a-uuid", the empty text, a
\* well-formed identifier in upper case, and a text of the right shape with a
\* letter that is no hexadecimal digit
NotAUuidChars == <<"n", "o", "t", "-", "a", "-", "u", "u", "i", "d">>
UpperUuidChars == [i \in 1..36 |-> IF i \in DashPositions THEN "-" ELSE "A"]
BadDigitChars == [i \in 1..36 |-> IF i \in DashPositions THEN "-" ELSE "g"]
NotAUuid == Text(NotAUuidChars)
UpperUuid == Text(UpperUuidChars)
BadDigitUuid == Text(BadDigitChars)

\* identifier arguments callers send in a run
IdArgs == UUIDs \cup {NotAUuid}
\* identifier arguments the properties range over
AnyIdArgs == IdArgs \cup {"", UpperUuid, BadDigitUuid}

\* the characters of every identifier text above
Spellings ==
    UuidSpellings \cup {NotAUuidChars, UpperUuidChars, BadDigitChars, <<>>}
Chars == [t \in {Text(chars) : chars \in Spellings} |->
            CHOOSE chars \in Spellings : Text(chars) = t]

\* /^[\da-f]{8}-([\da-f]{4}-){3}[\da-f]{12}$/i on a sequence of characters
MatchesUuidPattern(c) ==
    /\ Len(c) = 36
    /\ \A i \in 1..36 :
          IF i \in DashPositions THEN c[i] = "-" ELSE c[i] \in HexDigits

\* the identifier texts the pattern accepts
WellFormed == {t \in DOMAIN Chars : MatchesUuidPattern(Chars[t])}

isValidUUID(id) == id \in WellFormed

\* byte order of the characters that occur in stored keys
CharCode(ch) ==
    IF ch = "-" THEN 0 ELSE CHOOSE i \in 1..16 : HexLower[i] = ch

\* a < b for two keys of equal length, byte-wise lexicographic
KeyLess(a, b) ==
    \E i \in 1..Len(Chars[a]) :
        /\ \A j \in 1..(i - 1) : Chars[a][j] = Chars[b][j]
        /\ CharCode(Chars[a][i]) < CharCode(Chars[b][i])

-----------------------------------------------------------------------------
(* Payloads *)

AssetTypes == {"", "car"}
AssetDescriptions == {"", "sedan"}
OwnerNames == {"", "Alice", "Bob"}
Statuses == {"", "active", "inactive", "pending"}

\* every payload over these field values
Payloads ==
    [assetType : AssetTypes, assetDescription : AssetDescriptions,
     ownerName : OwnerNames, status : Statuses]

Payload(t, d, n, st) ==
    [assetType |-> t, assetDescription |-> d, ownerName |-> n, status |-> st]

\* the payloads callers send in a run: complete with a valid status, complete
\* with a status outside {"active", "inactive"}, all empty, one field only
CallPayloads ==
    {Payload("car", "sedan", "Alice", "active"),
     Payload("car", "sedan", "Bob", "pending"),
     Payload("", "", "", ""),
     Payload("", "", "Bob", "")}

\* JavaScript's a || b on strings: a unless a is the empty string
OrElse(a, b) == IF a # "" THEN a ELSE b

-----------------------------------------------------------------------------
(* Results *)

Ok(v) == [tag |-> "Ok", value |-> v]
\* an error message: its text, and the argument interpolated into it
Err(text, arg) == [tag |-> "Err", value |-> [text |-> text, arg |-> arg]]
NoArg == ""

-----------------------------------------------------------------------------
(* The store *)

\* StableBTreeMap.get: is the key present
Has(store, key) == key \in DOMAIN store

\* StableBTreeMap.insert
Insert(store, key, value) ==
    [k \in DOMAIN store \cup {key} |-> IF k = key THEN value ELSE store[k]]

\* a removal that empties the map
RemoveClearing(store, key) == [k \in {} |-> store[k]]

\* StableBTreeMap.remove
Remove(store, key) == [k \in DOMAIN store \ {key} |-> store[k]]

RECURSIVE ValuesOf(_, _)
ValuesOf(store, keys) ==
    IF keys = {} THEN <<>>
    ELSE LET least == CHOOSE k \in keys : \A o \in keys \ {k} : KeyLess(k, o)
         IN  <<store[least]>> \o ValuesOf(store, keys \ {least})

\* StableBTreeMap.values: the stored records in key order
Values(store) == ValuesOf(store, DOMAIN store)

isEventStatusValid(status) == status = "active" \/ status = "inactive"

-----------------------------------------------------------------------------
(* The canister methods, as functions of the store and their arguments.     *)
(* Each yields the store after the call and the Result returned.            *)

Outcome(store, ret) == [store |-> store, ret |-> ret]

getAllEventsCall(store) == Outcome(store, Ok(Values(store)))

getEventByIdCall(store, eventId) ==
    IF ~isValidUUID(eventId)
    THEN Outcome(store, Err("Invalid event ID", NoArg))
    ELSE IF Has(store, eventId)
    THEN Outcome(store, Ok(store[eventId]))
    ELSE Outcome(store,
            Err("Event with the provided id: ${eventId} has not been found!",
                eventId))

\* getOwnersEvents with the filter on the event's id
getOwnersEventsCallByEventId(store, ownerId) ==
    IF ~isValidUUID(ownerId)
    THEN Outcome(store, Err("Invalid owner ID", NoArg))
    ELSE Outcome(store,
            Ok(SelectSeq(Values(store), LAMBDA event : event.id = ownerId)))

getOwnersEventsCall(store, ownerId) ==
    IF ~isValidUUID(ownerId)
    THEN Outcome(store, Err("Invalid owner ID", NoArg))
    ELSE Outcome(store,
            Ok(SelectSeq(Values(store), LAMBDA event : event.ownerId = ownerId)))

\* getEventsByStatus without the filter on the status
getEventsByStatusCallUnfiltered(store, status) ==
    IF ~isEventStatusValid(status)
    THEN Outcome(store, Err("Invalid event status: ${status}", status))
    ELSE Outcome(store, Ok(Values(store)))

getEventsByStatusCall(store, status) ==
    IF ~isEventStatusValid(status)
    THEN Outcome(store, Err("Invalid event status: ${status}", status))
    ELSE Outcome(store,
            Ok(SelectSeq(Values(store), LAMBDA event : event.status = status)))

\* !payload.assetType || !payload.assetDescription || !payload.ownerName ||
\* !payload.status, with the mutant that rejects only an all-empty payload
IncompleteIfAllEmpty(payload) ==
    /\ payload.assetType = ""
    /\ payload.assetDescription = ""
    /\ payload.ownerName = ""
    /\ payload.status = ""

Incomplete(payload) ==
    \/ payload.assetType = ""
    \/ payload.assetDescription = ""
    \/ payload.ownerName = ""
    \/ payload.status = ""

\* the record createEvent builds; the mutant forgets to add the clock reading
\* to the duration
newEventFixedEnd(payload, t, eventId, ownerId) ==
    [id               |-> eventId,
     assetType        |-> payload.assetType,
     assetDescription |-> payload.assetDescription,
     ownerName        |-> payload.ownerName,
     ownerId          |-> ownerId,
     startDate        |-> t,
     endDate          |-> fixedEndDate,
     status           |-> payload.status]

\* the record with the caller's owner name taken as the owner's identifier
newEventCallerOwner(payload, t, eventId, ownerId) ==
    [id               |-> eventId,
     assetType        |-> payload.assetType,
     assetDescription |-> payload.assetDescription,
     ownerName        |-> payload.ownerName,
     ownerId          |-> payload.ownerName,
     startDate        |-> t,
     endDate          |-> t + fixedEndDate,
     status           |-> payload.status]

newEvent(payload, t, eventId, ownerId) ==
    [id               |-> eventId,
     assetType        |-> payload.assetType,
     assetDescription |-> payload.assetDescription,
     ownerName        |-> payload.ownerName,
     ownerId          |-> ownerId,
     startDate        |-> t,
     endDate          |-> t + fixedEndDate,
     status           |-> payload.status]

\* createEvent with the record inserted under its ownerId
createEventCallKeyedByOwner(store, t, payload, eventId, ownerId) ==
    IF Incomplete(payload)
    THEN Outcome(store, Err("Incomplete input data!", NoArg))
    ELSE Outcome(Insert(store, ownerId, newEvent(payload, t, eventId, ownerId)),
                 Ok(newEvent(payload, t, eventId, ownerId)))

\* createEvent without the insert into eventStorage
createEventCallNoInsert(store, t, payload, eventId, ownerId) ==
    IF Incomplete(payload)
    THEN Outcome(store, Err("Incomplete input data!", NoArg))
    ELSE Outcome(store, Ok(newEvent(payload, t, eventId, ownerId)))

\* t is the reading of ic.time(); eventId and ownerId are the two values
\* uuidv4() returns, in the order the code asks for them
createEventCall(store, t, payload, eventId, ownerId) ==
    IF Incomplete(payload)
    THEN Outcome(store, Err("Incomplete input data!", NoArg))
    ELSE Outcome(Insert(store, eventId, newEvent(payload, t, eventId, ownerId)),
                 Ok(newEvent(payload, t, eventId, ownerId)))

\* the record updateEvent builds; the mutant replaces the whole record by the
\* payload
updatedEventReplacing(event, payload) ==
    [id               |-> event.id,
     assetType        |-> payload.assetType,
     assetDescription |-> payload.assetDescription,
     ownerName        |-> payload.ownerName,
     ownerId          |-> event.ownerId,
     startDate        |-> event.startDate,
     endDate          |-> event.endDate,
     status           |-> payload.status]

updatedEvent(event, payload) ==
    [id               |-> event.id,
     assetType        |-> OrElse(payload.assetType, event.assetType),
     assetDescription |-> OrElse(payload.assetDescription,
                                 event.assetDescription),
     ownerName        |-> OrElse(payload.ownerName, event.ownerName),
     ownerId          |-> event.ownerId,
     startDate        |-> event.startDate,
     endDate          |-> event.endDate,
     status           |-> OrElse(payload.status, event.status)]

updateEventCall(store, eventId, ownerId, payload) ==
    IF ~isValidUUID(eventId) \/ ~isValidUUID(ownerId)
    THEN Outcome(store,
            Err("Invalid event or owner ID for updating an event.", NoArg))
    ELSE IF ~Has(store, eventId)
    THEN Outcome(store,
            Err("Failed to update event with id: ${eventId}!", eventId))
    ELSE IF store[eventId].ownerId # ownerId
    THEN Outcome(store, Err("Only the owner can update this event!", NoArg))
    ELSE Outcome(Insert(store, store[eventId].id,
                        updatedEvent(store[eventId], payload)),
                 Ok(updatedEvent(store[eventId], payload)))

\* the record endEvent builds; the mutant restarts the event at the clock
\* reading
endedEventRestarted(event, t) ==
    [id               |-> event.id,
     assetType        |-> event.assetType,
     assetDescription |-> event.assetDescription,
     ownerName        |-> event.ownerName,
     ownerId          |-> event.ownerId,
     startDate        |-> t,
     endDate          |-> t,
     status           |-> "inactive"]

\* the record with status "inactive" and the endDate left as it was
endedEventKeepingEnd(event, t) ==
    [id               |-> event.id,
     assetType        |-> event.assetType,
     assetDescription |-> event.assetDescription,
     ownerName        |-> event.ownerName,
     ownerId          |-> event.ownerId,
     startDate        |-> event.startDate,
     endDate          |-> event.endDate,
     status           |-> "inactive"]

endedEvent(event, t) ==
    [id               |-> event.id,
     assetType        |-> event.assetType,
     assetDescription |-> event.assetDescription,
     ownerName        |-> event.ownerName,
     ownerId          |-> event.ownerId,
     startDate        |-> event.startDate,
     endDate          |-> t,
     status           |-> "inactive"]

\* endEvent with the date test turned round: it ends a record whose endDate
\* is not yet past and refuses one whose endDate is past
endEventCallBeforeDue(store, t, eventId, ownerId) ==
    IF ~isValidUUID(eventId) \/ ~isValidUUID(ownerId)
    THEN Outcome(store,
            Err("Invalid event or owner ID for ending an event.", NoArg))
    ELSE IF ~Has(store, eventId)
    THEN Outcome(store, Err("Failed to end event with id: ${eventId}!", eventId))
    ELSE IF store[eventId].ownerId # ownerId
    THEN Outcome(store, Err("Only the owner can end this event!", NoArg))
    ELSE IF store[eventId].endDate < t
    THEN Outcome(store, Err("Event already ended!", NoArg))
    ELSE Outcome(Insert(store, store[eventId].id, endedEvent(store[eventId], t)),
                 Ok(endedEvent(store[eventId], t)))

\* endEvent with the date test refusing only an endDate after the reading
endEventCallInclusive(store, t, eventId, ownerId) ==
    IF ~isValidUUID(eventId) \/ ~isValidUUID(ownerId)
    THEN Outcome(store,
            Err("Invalid event or owner ID for ending an event.", NoArg))
    ELSE IF ~Has(store, eventId)
    THEN Outcome(store, Err("Failed to end event with id: ${eventId}!", eventId))
    ELSE IF store[eventId].ownerId # ownerId
    THEN Outcome(store, Err("Only the owner can end this event!", NoArg))
    ELSE IF store[eventId].endDate > t
    THEN Outcome(store, Err("Event already ended!", NoArg))
    ELSE Outcome(Insert(store, store[eventId].id, endedEvent(store[eventId], t)),
                 Ok(endedEvent(store[eventId], t)))

endEventCall(store, t, eventId, ownerId) ==
    IF ~isValidUUID(eventId) \/ ~isValidUUID(ownerId)
    THEN Outcome(store,
            Err("Invalid event or owner ID for ending an event.", NoArg))
    ELSE IF ~Has(store, eventId)
    THEN Outcome(store, Err("Failed to end event with id: ${eventId}!", eventId))
    ELSE IF store[eventId].ownerId # ownerId
    THEN Outcome(store, Err("Only the owner can end this event!", NoArg))
    ELSE IF store[eventId].endDate >= t
    THEN Outcome(store, Err("Event already ended!", NoArg))
    ELSE Outcome(Insert(store, store[eventId].id, endedEvent(store[eventId], t)),
                 Ok(endedEvent(store[eventId], t)))

\* deleteEvent with the removal made before the identifiers are validated
deleteEventCallRemoveFirst(store, eventId, ownerId) ==
    IF ~Has(store, eventId)
    THEN IF ~isValidUUID(eventId) \/ ~isValidUUID(ownerId)
         THEN Outcome(store,
                 Err("Invalid event or owner ID for deleting an event.", NoArg))
         ELSE Outcome(store,
                 Err("Failed to delete event with id: ${eventId}", eventId))
    ELSE LET event == store[eventId]
             removed == Remove(store, eventId)
         IN  IF ~isValidUUID(eventId) \/ ~isValidUUID(ownerId)
             THEN Outcome(removed,
                     Err("Invalid event or owner ID for deleting an event.",
                         NoArg))
             ELSE IF event.ownerId # ownerId
             THEN Outcome(removed, Err("Only owner can delete event!", NoArg))
             ELSE Outcome(removed, Ok(event))

\* deleteEvent with the ownership test made before the removal
deleteEventCallCheckFirst(store, eventId, ownerId) ==
    IF ~isValidUUID(eventId) \/ ~isValidUUID(ownerId)
    THEN Outcome(store,
            Err("Invalid event or owner ID for deleting an event.", NoArg))
    ELSE IF ~Has(store, eventId)
    THEN Outcome(store, Err("Failed to delete event with id: ${eventId}", eventId))
    ELSE IF store[eventId].ownerId # ownerId
    THEN Outcome(store, Err("Only owner can delete event!", NoArg))
    ELSE Outcome(Remove(store, eventId), Ok(store[eventId]))

deleteEventCall(store, eventId, ownerId) ==
    IF ~isValidUUID(eventId) \/ ~isValidUUID(ownerId)
    THEN Outcome(store,
            Err("Invalid event or owner ID for deleting an event.", NoArg))
    ELSE IF ~Has(store, eventId)
    THEN Outcome(store, Err("Failed to delete event with id: ${eventId}", eventId))
    ELSE LET event == store[eventId]
             removed == Remove(store, eventId)
         IN  IF event.ownerId # ownerId
             THEN Outcome(removed, Err("Only owner can delete event!", NoArg))
             ELSE Outcome(removed, Ok(event))

-----------------------------------------------------------------------------
(* The state machine *)

EmptyStore == [k \in {} |-> k]

Init ==
    /\ eventStorage = EmptyStore
    /\ now = 1
    /\ minted = {}
    /\ op = "none"
    /\ result = [tag |-> "None"]

\* a generator that hands out again an identifier no stored record holds
uuidv4Reusing(used) ==
    LET held == DOMAIN eventStorage
                  \cup {eventStorage[k].ownerId : k \in DOMAIN eventStorage}
                  \cup (used \ minted)
    IN  CHOOSE u \in UUIDs \ held : \A o \in UUIDs \ (held \cup {u}) : KeyLess(u, o)

\* uuidv4(): an identifier it has not returned before.  The code only tests
\* identifiers for well-formedness and equality, so which unused identifier
\* comes back is immaterial; the model takes the least unused one.
uuidv4(used) ==
    CHOOSE u \in UUIDs \ used : \A o \in UUIDs \ (used \cup {u}) : KeyLess(u, o)

\* a call that asks uuidv4() for nothing
Returns(name, outcome) ==
    /\ eventStorage' = outcome.store
    /\ result' = outcome.ret
    /\ op' = name
    /\ UNCHANGED <<now, minted>>

getAllEvents == Returns("getAllEvents", getAllEventsCall(eventStorage))

getEventById(eventId) ==
    Returns("getEventById", getEventByIdCall(eventStorage, eventId))

getOwnersEvents(ownerId) ==
    Returns("getOwnersEvents", getOwnersEventsCall(eventStorage, ownerId))

getEventsByStatus(status) ==
    Returns("getEventsByStatus", getEventsByStatusCall(eventStorage, status))

\* the two identifiers are asked for only once the payload is accepted
createEvent(payload) ==
    IF createEventCall(eventStorage, now, payload, NoArg, NoArg).ret.tag = "Err"
    THEN Returns("createEvent",
                 createEventCall(eventStorage, now, payload, NoArg, NoArg))
    ELSE /\ Cardinality(UUIDs \ minted) >= 2
         /\ LET eventId == uuidv4(minted)
                ownerId == uuidv4(minted \cup {eventId})
                outcome ==
                    createEventCall(eventStorage, now, payload, eventId, ownerId)
            IN  /\ eventStorage' = outcome.store
                /\ result' = outcome.ret
                /\ op' = "createEvent"
                /\ minted' = minted \cup {eventId, ownerId}
                /\ UNCHANGED now

updateEvent(eventId, ownerId, payload) ==
    Returns("updateEvent",
            updateEventCall(eventStorage, eventId, ownerId, payload))

endEvent(eventId, ownerId) ==
    Returns("endEvent", endEventCall(eventStorage, now, eventId, ownerId))

deleteEvent(eventId, ownerId) ==
    Returns("deleteEvent", deleteEventCall(eventStorage, eventId, ownerId))

\* the clock moves on between two calls
Tick ==
    /\ now + fixedEndDate <= 1 + MaxTicks * fixedEndDate
    /\ now' = now + fixedEndDate
    /\ UNCHANGED <<eventStorage, minted, op, result>>

Next ==
    \/ getAllEvents
    \/ \E eventId \in IdArgs : getEventById(eventId)
    \/ \E ownerId \in IdArgs : getOwnersEvents(ownerId)
    \/ \E status \in Statuses : getEventsByStatus(status)
    \/ \E payload \in CallPayloads : createEvent(payload)
    \/ \E eventId \in IdArgs, ownerId \in IdArgs, payload \in CallPayloads :
          updateEvent(eventId, ownerId, payload)
    \/ \E eventId \in IdArgs, ownerId \in IdArgs : endEvent(eventId, ownerId)
    \/ \E eventId \in IdArgs, ownerId \in IdArgs : deleteEvent(eventId, ownerId)
    \/ Tick

Spec == Init /\ [][Next]_vars

-----------------------------------------------------------------------------
(* Vocabulary of the properties *)

\* the failure kinds, by the message texts the methods return
KindOfText ==
    [t \in {"Invalid event ID", "Invalid owner ID",
            "Invalid event or owner ID for updating an event.",
            "Invalid event or owner ID for ending an event.",
            "Invalid event or owner ID for deleting an event.",
            "Invalid event status: ${status}",
            "Incomplete input data!",
            "Event with the provided id: ${eventId} has not been found!",
            "Failed to update event with id: ${eventId}!",
            "Failed to end event with id: ${eventId}!",
            "Failed to delete event with id: ${eventId}",
            "Only the owner can update this event!",
            "Only the owner can end this event!",
            "Only owner can delete event!",
            "Event already ended!"} |->
        CASE t \in {"Invalid event ID", "Invalid owner ID",
                    "Invalid event or owner ID for updating an event.",
                    "Invalid event or owner ID for ending an event.",
                    "Invalid event or owner ID for deleting an event."}
                -> "InvalidId"
          [] t = "Invalid event status: ${status}" -> "InvalidStatus"
          [] t = "Incomplete input data!" -> "IncompleteInput"
          [] t \in {"Event with the provided id: ${eventId} has not been found!",
                    "Failed to update event with id: ${eventId}!",
                    "Failed to end event with id: ${eventId}!",
                    "Failed to delete event with id: ${eventId}"}
                -> "NotFound"
          [] t \in {"Only the owner can update this event!",
                    "Only the owner can end this event!",
                    "Only owner can delete event!"}
                -> "Forbidden"
          [] OTHER -> "AlreadyEnded"]

IsOk(ret) == ret.tag = "Ok"
IsErr(ret) == ret.tag = "Err"
\* the failure kind of a Result, "none" for a success
Kind(ret) == IF IsErr(ret) THEN KindOfText[ret.value.text] ELSE "none"

ValidStatuses == {"active", "inactive"}

\* the identifiers uuidv4() would hand to a createEvent call made now
FreshEventId == uuidv4(minted)
FreshOwnerId == uuidv4(minted \cup {FreshEventId})
CanMint == Cardinality(UUIDs \ minted) >= 2

-----------------------------------------------------------------------------
(* C1 *)

\* C1: in every reachable state every stored Event has status "active" or
\* "inactive"; createEvent and updateEvent never store any other status.
C1_StatusAlwaysValid ==
    \A id \in DOMAIN eventStorage : eventStorage[id].status \in ValidStatuses

-----------------------------------------------------------------------------
(* C2 *)

\* the step is an updateEvent, endEvent or deleteEvent call on id that carries
\* ownerId
OwnerCallOn(id, ownerId) ==
    \/ \E payload \in Payloads : updateEvent(id, ownerId, payload)
    \/ endEvent(id, ownerId)
    \/ deleteEvent(id, ownerId)

\* C2: a stored record is changed or removed only by an updateEvent, endEvent
\* or deleteEvent call whose ownerId argument equals the record's stored
\* ownerId; a call carrying any other ownerId leaves it present and unchanged.
C2_OnlyOwnerMutates ==
    [][\A id \in DOMAIN eventStorage :
          (id \notin DOMAIN eventStorage' \/ eventStorage'[id] # eventStorage[id])
              => OwnerCallOn(id, eventStorage[id].ownerId)]_vars

-----------------------------------------------------------------------------
(* C3 *)

\* C3: a call that returns a failure result leaves the store as it was.
C3_FailureChangesNothing ==
    [][IsErr(result') => eventStorage' = eventStorage]_vars

-----------------------------------------------------------------------------
(* C4 *)

-----------------------------------------------------------------------------
(* C5 *)

\* what createEvent(payload) would do if it were called in this state
CreateNow(payload) ==
    IF CanMint
    THEN createEventCall(eventStorage, now, payload, FreshEventId, FreshOwnerId)
    ELSE createEventCall(eventStorage, now, payload, NoArg, NoArg)

\* C5: whenever createEvent(payload) succeeds and returns e, a getEventById(e.id)
\* that follows at once succeeds and returns a record equal to e in all eight
\* fields, whatever the store held before.
C5_CreateThenGetRoundTrip ==
    /\ (op = "createEvent" /\ IsOk(result))
          => getEventByIdCall(eventStorage, result.value.id).ret = Ok(result.value)
    /\ CanMint =>
          \A payload \in Payloads :
              LET created == CreateNow(payload)
              IN  IsOk(created.ret)
                     => getEventByIdCall(created.store, created.ret.value.id).ret
                            = Ok(created.ret.value)

\* createEvent has just succeeded on a store that already held a record
C5_Witness ==
    /\ op = "createEvent"
    /\ IsOk(result)
    /\ Cardinality(DOMAIN eventStorage) = 2

-----------------------------------------------------------------------------
(* C6 *)

\* id was handed out by uuidv4() and no record is stored under it
Gone(id) == id \in minted /\ id \notin DOMAIN eventStorage

\* C6: once deleteEvent has removed the record with key id, getEventById(id)
\* yields NotFound at once and after every later operation: no create, update
\* or end brings the id back.
C6_DeletionIsPermanent ==
    [][\A id \in minted :
          Gone(id) =>
              /\ Kind(getEventByIdCall(eventStorage, id).ret) = "NotFound"
              /\ id \notin DOMAIN eventStorage']_vars

\* two events were created, the first was deleted, and the last call is the
\* createEvent that made the second
C6_Witness ==
    /\ op = "createEvent"
    /\ IsOk(result)
    /\ Cardinality(minted) = 4
    /\ Cardinality(DOMAIN eventStorage) = 1

-----------------------------------------------------------------------------
(* C7 *)

\* C7: a successful updateEvent(id, ownerId, payload) stores, for each of
\* assetType, assetDescription, ownerName and status, the payload value if it
\* is non-empty and the previous value if it is empty; id, ownerId, startDate
\* and endDate are unchanged; with four empty fields the stored record stays
\* equal to the prior one, which is returned.
C7_UpdateIsFieldwise ==
    \A id \in DOMAIN eventStorage, payload \in Payloads :
        LET before == eventStorage[id]
            outcome == updateEventCall(eventStorage, id, before.ownerId, payload)
            after == outcome.store[id]
        IN  /\ IsOk(outcome.ret)
            /\ DOMAIN outcome.store = DOMAIN eventStorage
            /\ outcome.ret.value = after
            /\ after.assetType =
                  (IF payload.assetType # "" THEN payload.assetType
                   ELSE before.assetType)
            /\ after.assetDescription =
                  (IF payload.assetDescription # "" THEN payload.assetDescription
                   ELSE before.assetDescription)
            /\ after.ownerName =
                  (IF payload.ownerName # "" THEN payload.ownerName
                   ELSE before.ownerName)
            /\ after.status =
                  (IF payload.status # "" THEN payload.status ELSE before.status)
            /\ after.id = before.id
            /\ after.ownerId = before.ownerId
            /\ after.startDate = before.startDate
            /\ after.endDate = before.endDate
            /\ payload = Payload("", "", "", "")
                  => outcome.store = eventStorage /\ outcome.ret.value = before

\* updateEvent has just succeeded and the stored record is Bob's and "active":
\* no createEvent and no complete payload of the run gives that pair, so a
\* payload naming only the owner was merged into a record created "active"
C7_Witness ==
    /\ op = "updateEvent"
    /\ IsOk(result)
    /\ result.value.ownerName = "Bob"
    /\ result.value.status = "active"
    /\ eventStorage[result.value.id] = result.value

-----------------------------------------------------------------------------
(* C8 *)

\* C8: from its creation to its removal a record keeps the id, ownerId and
\* startDate createEvent gave it, across any updateEvent and endEvent calls.
C8_IdOwnerStartImmutable ==
    [][\A id \in DOMAIN eventStorage \cap DOMAIN eventStorage' :
          /\ eventStorage'[id].id = eventStorage[id].id
          /\ eventStorage'[id].ownerId = eventStorage[id].ownerId
          /\ eventStorage'[id].startDate = eventStorage[id].startDate]_vars

\* updateEvent has just succeeded on a record that endEvent had ended before
\* ("inactive" is in no payload of the run): it still starts at the clock
\* reading of its creation
C8_Witness ==
    /\ op = "updateEvent"
    /\ IsOk(result)
    /\ result.value.status = "inactive"
    /\ result.value.startDate = 1
    /\ result.value.endDate > result.value.startDate + fixedEndDate
    /\ eventStorage[result.value.id] = result.value

-----------------------------------------------------------------------------
(* C9 *)

\* C9: a successful createEvent at clock reading t adds exactly one entry,
\* under a key not present before, whose record has startDate = t,
\* endDate = t + 86400000, the four payload fields copied verbatim and a
\* freshly minted id and ownerId; every entry already stored is unchanged.
C9_CreateAddsOneRecord ==
    CanMint =>
        \A payload \in Payloads :
            LET created == CreateNow(payload)
                e == created.ret.value
            IN  IsOk(created.ret) =>
                    /\ e.id \notin DOMAIN eventStorage
                    /\ DOMAIN created.store = DOMAIN eventStorage \cup {e.id}
                    /\ created.store[e.id] = e
                    /\ \A k \in DOMAIN eventStorage :
                          created.store[k] = eventStorage[k]
                    /\ e.startDate = now
                    /\ e.endDate = now + 86400000
                    /\ e.assetType = payload.assetType
                    /\ e.assetDescription = payload.assetDescription
                    /\ e.ownerName = payload.ownerName
                    /\ e.status = payload.status
                    /\ e.id \notin minted
                    /\ e.ownerId \notin minted
                    /\ e.id # e.ownerId
                    /\ \A k \in DOMAIN eventStorage :
                          /\ e.id # eventStorage[k].ownerId
                          /\ e.ownerId # eventStorage[k].ownerId
                          /\ e.ownerId # k

\* createEvent has just succeeded after the clock moved on, next to an older
\* record
C9_Witness ==
    /\ op = "createEvent"
    /\ IsOk(result)
    /\ result.value.startDate = now
    /\ now > 1
    /\ Cardinality(DOMAIN eventStorage) = 2

-----------------------------------------------------------------------------
(* C10 *)

-----------------------------------------------------------------------------
(* C11 *)

\* clock readings around the end of a stored record, and the current one
ReadingsAround(event) ==
    {now, event.endDate - 1, event.endDate, event.endDate + 1}

-----------------------------------------------------------------------------
(* C12 *)

\* status arguments: those of the calls, and two more that are not valid
AnyStatuses == Statuses \cup {"Active", "ended"}

\* the elements of a list
Elements(list) == {list[i] : i \in 1..Len(list)}

\* C12: getEventsByStatus(s) for s "active" or "inactive" returns exactly the
\* stored Events whose status equals s, every such record once and no other,
\* in every reachable store; for any other string it fails with InvalidStatus.
C12_ByStatusIsExactFilter ==
    \A s \in AnyStatuses :
        LET outcome == getEventsByStatusCall(eventStorage, s)
            matching == {eventStorage[k] : k \in {j \in DOMAIN eventStorage :
                                                    eventStorage[j].status = s}}
        IN  /\ outcome.store = eventStorage
            /\ IF s \in {"active", "inactive"}
               THEN /\ IsOk(outcome.ret)
                    /\ Elements(outcome.ret.value) = matching
                    /\ Len(outcome.ret.value) = Cardinality(matching)
               ELSE /\ Kind(outcome.ret) = "InvalidStatus"
                    /\ outcome.ret.value.arg = s

\* getEventsByStatus has just returned one ended record out of a store of
\* two, the other one being stored with another status
C12_Witness ==
    /\ op = "getEventsByStatus"
    /\ IsOk(result)
    /\ Len(result.value) = 1
    /\ result.value[1].status = "inactive"
    /\ Cardinality(DOMAIN eventStorage) = 2
    /\ eventStorage[result.value[1].id] = result.value[1]
    /\ \E k \in DOMAIN eventStorage : eventStorage[k].status # "inactive"

-----------------------------------------------------------------------------
(* C13 *)

\* C13: in every reachable state no two stored Events share an id and no two
\* stored Events share an ownerId, uuidv4() never returning an identifier
\* twice.
C13_IdsAndOwnersUnique ==
    \A a \in DOMAIN eventStorage, b \in DOMAIN eventStorage :
        a # b => /\ eventStorage[a].id # eventStorage[b].id
                 /\ eventStorage[a].ownerId # eventStorage[b].ownerId

\* the second createEvent of two by the same caller has just succeeded, and
\* both records are stored
C13_Witness ==
    /\ op = "createEvent"
    /\ IsOk(result)
    /\ Cardinality(DOMAIN eventStorage) = 2
    /\ \A k \in DOMAIN eventStorage :
          /\ eventStorage[k].ownerName = result.value.ownerName
          /\ eventStorage[k].status = result.value.status
    /\ Cardinality({eventStorage[k].ownerId : k \in DOMAIN eventStorage}) = 2

-----------------------------------------------------------------------------
(* C14 *)

\* the last call was an endEvent that succeeded, and the record is stored as
\* that call left it: result.value.endDate is the reading t1 of that call
JustEnded ==
    /\ op = "endEvent"
    /\ IsOk(result)
    /\ result.value.id \in DOMAIN eventStorage
    /\ eventStorage[result.value.id] = result.value

-----------------------------------------------------------------------------
(* C15 *)

\* ownerId arguments to go with id: the ownerId of every stored record (the
\* owner of id among them), well-formed identifiers that own nothing, and
\* malformed texts
OwnerProbes(id) ==
    {eventStorage[k].ownerId : k \in DOMAIN eventStorage}
        \cup {id, UpperUuid, NotAUuid, ""}

\* a payload that changes every field of a record and one that changes none
ProbePayloads ==
    {Payload("car", "sedan", "Alice", "active"), Payload("", "", "", "")}

\* C15: for updateEvent, endEvent and deleteEvent a malformed id or ownerId
\* yields InvalidId before any lookup and leaves the store unchanged, also
\* for deleteEvent on a stored id with a malformed ownerId; with well-formed
\* identifiers an absent id yields NotFound; for updateEvent and endEvent a
\* present id with another ownerId yields Forbidden with the store unchanged,
\* and for endEvent Forbidden comes before AlreadyEnded.
C15_ValidationOrder ==
    \A id \in AnyIdArgs :
    \A ownerId \in OwnerProbes(id) :
        LET ended == endEventCall(eventStorage, now, id, ownerId)
            deleted == deleteEventCall(eventStorage, id, ownerId)
        IN  IF id \notin WellFormed \/ ownerId \notin WellFormed
            THEN /\ \A payload \in ProbePayloads :
                       LET updated ==
                               updateEventCall(eventStorage, id, ownerId, payload)
                       IN  /\ Kind(updated.ret) = "InvalidId"
                           /\ updated.store = eventStorage
                 /\ Kind(ended.ret) = "InvalidId"
                 /\ ended.store = eventStorage
                 /\ Kind(deleted.ret) = "InvalidId"
                 /\ deleted.store = eventStorage
            ELSE IF id \notin DOMAIN eventStorage
            THEN /\ \A payload \in ProbePayloads :
                       LET updated ==
                               updateEventCall(eventStorage, id, ownerId, payload)
                       IN  /\ Kind(updated.ret) = "NotFound"
                           /\ updated.store = eventStorage
                 /\ Kind(ended.ret) = "NotFound"
                 /\ ended.store = eventStorage
                 /\ Kind(deleted.ret) = "NotFound"
                 /\ deleted.store = eventStorage
            ELSE eventStorage[id].ownerId # ownerId =>
                 /\ \A payload \in ProbePayloads :
                       LET updated ==
                               updateEventCall(eventStorage, id, ownerId, payload)
                       IN  /\ Kind(updated.ret) = "Forbidden"
                           /\ updated.store = eventStorage
                 /\ \A t \in ReadingsAround(eventStorage[id]) :
                       LET endedAt == endEventCall(eventStorage, t, id, ownerId)
                       IN  /\ Kind(endedAt.ret) = "Forbidden"
                           /\ endedAt.store = eventStorage

\* endEvent has just returned Forbidden for the one stored record, whose
\* endDate is not before the clock reading: the owner would have got
\* AlreadyEnded
C15_Witness ==
    /\ op = "endEvent"
    /\ Kind(result) = "Forbidden"
    /\ Cardinality(DOMAIN eventStorage) = 1
    /\ \A k \in DOMAIN eventStorage :
          /\ eventStorage[k].endDate >= now
          /\ Kind(endEventCall(eventStorage, now, k, eventStorage[k].ownerId).ret)
                = "AlreadyEnded"

-----------------------------------------------------------------------------
(* C16 *)

\* the keys whose entry differs between eventStorage and store: added,
\* removed, or holding another record
Changed(store) ==
    {k \in DOMAIN eventStorage \cup DOMAIN store :
        \/ k \notin DOMAIN eventStorage
        \/ k \notin DOMAIN store
        \/ store[k] # eventStorage[k]}

\* C16: every operation changes at most one map entry, the one keyed by its
\* id argument, or by the new id for createEvent: the four queries leave the
\* whole store unchanged, and updateEvent, endEvent and deleteEvent leave
\* every entry with another key unchanged and never add a key.
C16_OneEntryFrame ==
    /\ getAllEventsCall(eventStorage).store = eventStorage
    /\ \A id \in AnyIdArgs :
          /\ getEventByIdCall(eventStorage, id).store = eventStorage
          /\ getOwnersEventsCall(eventStorage, id).store = eventStorage
    /\ \A s \in AnyStatuses :
          getEventsByStatusCall(eventStorage, s).store = eventStorage
    /\ CanMint =>
          \A payload \in ProbePayloads :
              Changed(CreateNow(payload).store) \subseteq {FreshEventId}
    /\ \A id \in AnyIdArgs :
       \A ownerId \in OwnerProbes(id) :
          LET ended == endEventCall(eventStorage, now, id, ownerId).store
              deleted == deleteEventCall(eventStorage, id, ownerId).store
          IN  /\ \A payload \in ProbePayloads :
                    LET updated ==
                          updateEventCall(eventStorage, id, ownerId, payload).store
                    IN  /\ Changed(updated) \subseteq {id}
                        /\ DOMAIN updated \subseteq DOMAIN eventStorage
              /\ Changed(ended) \subseteq {id}
              /\ DOMAIN ended \subseteq DOMAIN eventStorage
              /\ Changed(deleted) \subseteq {id}
              /\ DOMAIN deleted \subseteq DOMAIN eventStorage

\* two events were created and the owner of one has just deleted it: the
\* other one is still stored
C16_Witness ==
    /\ op = "deleteEvent"
    /\ IsOk(result)
    /\ Cardinality(minted) = 4
    /\ Cardinality(DOMAIN eventStorage) = 1
    /\ result.value.id \notin DOMAIN eventStorage

-----------------------------------------------------------------------------
(* C17 *)

\* C17: in every reachable state each map entry's key equals the id field of
\* the record stored under it, and that id is not the empty string.
C17_KeyIsId ==
    \A k \in DOMAIN eventStorage :
        /\ eventStorage[k].id = k
        /\ k # ""
        /\ Len(k) > 0

\* endEvent has just re-inserted one of two stored records; the other was
\* inserted by createEvent and again by updateEvent ("Bob" with "active" is
\* in no payload of the run)
C17_Witness ==
    /\ op = "endEvent"
    /\ IsOk(result)
    /\ Cardinality(DOMAIN eventStorage) = 2
    /\ result.value.ownerName = "Bob"
    /\ result.value.assetType = "car"
    /\ eventStorage[result.value.id] = result.value
    /\ \E k \in DOMAIN eventStorage :
          /\ eventStorage[k].ownerName = "Bob"
          /\ eventStorage[k].status = "active"

-----------------------------------------------------------------------------
(* C18 *)

-----------------------------------------------------------------------------
(* C19 *)

\* C19: createEvent mints a new ownerId for every record and no operation
\* changes it, so getOwnersEvents(ownerId) returns at most one Event in every
\* reachable state, and it returns exactly the stored records whose ownerId
\* equals the argument: an empty list, not an error, when there is none.
C19_OwnersEventsAtMostOne ==
    \A ownerId \in AnyIdArgs :
        LET outcome == getOwnersEventsCall(eventStorage, ownerId)
            owned == {eventStorage[k] : k \in {j \in DOMAIN eventStorage :
                                     eventStorage[j].ownerId = ownerId}}
        IN  /\ outcome.store = eventStorage
            /\ IF ownerId \in WellFormed
               THEN /\ IsOk(outcome.ret)
                    /\ Elements(outcome.ret.value) = owned
                    /\ Len(outcome.ret.value) = Cardinality(owned)
                    /\ Len(outcome.ret.value) <= 1
                    /\ owned = {} => outcome.ret = Ok(<<>>)
               ELSE Kind(outcome.ret) = "InvalidId"

\* getOwnersEvents has just returned the one record of an owner, out of a
\* store of two records
C19_Witness ==
    /\ op = "getOwnersEvents"
    /\ IsOk(result)
    /\ Len(result.value) = 1
    /\ Cardinality(DOMAIN eventStorage) = 2
    /\ eventStorage[result.value[1].id] = result.value[1]
    /\ getOwnersEventsCall(eventStorage, result.value[1].ownerId).ret = result

====
